---- MODULE Spec2Model ----
(***************************************************************************)
(* A model of the beamop compact-term codec (src/src/term.rs) and of the   *)
(* instruction-stream driver (src/src/lib.rs).                             *)
(*                                                                         *)
(* Representation.  TLC's integers are 32 bits wide, so machine words and  *)
(* big integers are kept as the bytes the code reads and writes:           *)
(*   - a byte is a number in 0..255;                                       *)
(*   - a usize is the sequence of its USIZE_BYTES big-endian bytes;        *)
(*   - a BigInt is a record [sign, mag] as in num-bigint: sign is          *)
(*     "Minus", "NoSign" or "Plus" and mag is the big-endian magnitude     *)
(*     without leading zero bytes (empty for zero);                        *)
(*   - Option<usize> is <<>> (None) or <<w>> (Some(w));                    *)
(*   - a reader is the sequence of the bytes still unread, a writer the    *)
(*     sequence of the bytes written.                                      *)
(* A decode routine returns [st |-> "Ok", val, rest], [st |-> "Err", err]  *)
(* or [st |-> "Panic", msg] (todo!(), unreachable!(), assert!).            *)
(***************************************************************************)
EXTENDS Integers, Sequences, FiniteSets, TLC

VARIABLES
    USIZE_BYTES,   \* size_of::<usize>() of the build: 4 or 8
    call,          \* the routine last called, with its arguments
    ret,           \* what that call returned
    reader,        \* parse_code_chunk: the bytes of the chunk not yet read
    ops,           \* parse_code_chunk: the operations decoded so far
    status         \* parse_code_chunk: "idle", "running", "err", "panic"

vars == <<USIZE_BYTES, call, ret, reader, ops, status>>

(***************************************************************************)
(* Bytes and bit operations                                                *)
(***************************************************************************)
Byte == 0..255

\* a >> n on unsigned values
Shr(a, n) == a \div (2 ^ n)

\* (a << n) as u8
ShlU8(a, n) == (a * (2 ^ n)) % 256

RECURSIVE BitAnd(_, _)
BitAnd(a, b) ==
    IF a = 0 \/ b = 0 THEN 0
    ELSE (a % 2) * (b % 2) + 2 * BitAnd(a \div 2, b \div 2)

RECURSIVE BitOr(_, _)
BitOr(a, b) ==
    IF a = 0 THEN b
    ELSE IF b = 0 THEN a
    ELSE (IF a % 2 = 1 \/ b % 2 = 1 THEN 1 ELSE 0) + 2 * BitOr(a \div 2, b \div 2)

\* Big-endian bytes of a small number n, in exactly len bytes (n < 2^31).
RECURSIVE NatBytes(_, _)
NatBytes(n, len) ==
    IF len = 0 THEN <<>> ELSE Append(NatBytes(n \div 256, len - 1), n % 256)

Zeros(n) == [i \in 1..n |-> 0]

\* Left-pad with zero bytes to n bytes (zero extension of an unsigned value).
ZeroPad(bytes, n) == Zeros(n - Len(bytes)) \o bytes

\* Drop the leading zero bytes (BigUint::from_bytes_be normalises).
RECURSIVE StripZeros(_)
StripZeros(bytes) ==
    IF bytes = <<>> THEN <<>>
    ELSE IF Head(bytes) = 0 THEN StripZeros(Tail(bytes))
    ELSE bytes

AllZero(bytes) == \A i \in 1..Len(bytes) : bytes[i] = 0

\* The last n bytes.
LastBytes(bytes, n) == SubSeq(bytes, Len(bytes) - n + 1, Len(bytes))

\* A usize from a small number: `x as usize`, usize::from(x).
usize_from(n) == NatBytes(n, USIZE_BYTES)

\* Whether the usize w is the small number n.
usize_is(w, n) == w = usize_from(n)

(***************************************************************************)
(* Results                                                                 *)
(***************************************************************************)
Ok(v, rest) == [st |-> "Ok", val |-> v, rest |-> rest]
Err(e) == [st |-> "Err", err |-> e]
Panic(msg) == [st |-> "Panic", msg |-> msg]

IsOk(r) == r.st = "Ok"
IsErr(r) == r.st = "Err"
IsPanic(r) == r.st = "Panic"

UnknownTermTag(tag) == [type |-> "UnknownTermTag", tag |-> tag]
TooLargeUsizeValue(byte_size) == [type |-> "TooLargeUsizeValue", byte_size |-> byte_size]
IoError == [type |-> "IoError", kind |-> "UnexpectedEof"]
ConvertError(e) == [type |-> "ConvertTermError", source |-> e]

\* reader.read_u8()
read_u8(r) ==
    IF r = <<>> THEN Err(IoError) ELSE Ok(Head(r), Tail(r))

\* reader.read_exact(&mut buf) with buf.len() = n
read_exact(r, n) ==
    IF Len(r) < n THEN Err(IoError)
    ELSE Ok(SubSeq(r, 1, n), SubSeq(r, n + 1, Len(r)))

(***************************************************************************)
(* Tags (beam_opcodes.hrl)                                                 *)
(***************************************************************************)
TAG_U == 0
TAG_I == 1
TAG_A == 2
TAG_X == 3
TAG_Y == 4
TAG_F == 5
TAG_H == 6
TAG_Z == 7

(***************************************************************************)
(* usize values (big-endian byte vectors of USIZE_BYTES bytes)             *)
(***************************************************************************)
\* value < 16
usize_lt_16(w) == AllZero(SubSeq(w, 1, Len(w) - 1)) /\ w[Len(w)] < 16

\* value < 0x800
usize_lt_0x800(w) == AllZero(SubSeq(w, 1, Len(w) - 2)) /\ w[Len(w) - 1] < 8

\* The low 16 bits of a usize, as a number.
usize_low16(w) == w[Len(w) - 1] * 256 + w[Len(w)]

\* value > isize::MAX (the top bit is set)
usize_gt_isize_max(w) == w[1] >= 128

\* Whether the usize w, as a count, is at most the small number n.
usize_le(w, n) == AllZero(SubSeq(w, 1, Len(w) - 2)) /\ usize_low16(w) <= n

(***************************************************************************)
(* num::BigInt                                                             *)
(***************************************************************************)
BigInt(sign, mag) == [sign |-> sign, mag |-> mag]

\* BigUint::from_bytes_be, then BigInt::from_biguint(Plus, _)
BigInt_from_unsigned(bytes) ==
    LET mag == StripZeros(bytes)
    IN  BigInt(IF mag = <<>> THEN "NoSign" ELSE "Plus", mag)

\* BigInt::from(n) for a small unsigned n
BigInt_from(n) == BigInt_from_unsigned(NatBytes(n, 2))

\* twos_complement_be: invert every byte and add one, from the last byte up.
RECURSIVE twos_complement(_, _)
twos_complement(bytes, carry) ==
    IF bytes = <<>> THEN <<>>
    ELSE LET n == Len(bytes)
             inv == 255 - bytes[n]
             d == IF carry THEN (inv + 1) % 256 ELSE inv
         IN  Append(twos_complement(SubSeq(bytes, 1, n - 1), carry /\ d = 0), d)

twos_complement_be(bytes) == twos_complement(bytes, TRUE)

\* Faulty variant: the bytes are taken as an unsigned number (BigInt::from_bytes_be).
from_bytes_be_unsigned(digits) == BigInt_from_unsigned(digits)

\* BigInt::from_signed_bytes_be
from_signed_bytes_be(digits) ==
    IF digits = <<>> THEN BigInt("NoSign", <<>>)
    ELSE IF digits[1] > 127
         THEN BigInt("Minus", StripZeros(twos_complement_be(digits)))
         ELSE BigInt_from_unsigned(digits)

\* BigInt::to_signed_bytes_be
to_signed_bytes_be(v) ==
    LET bytes == IF v.mag = <<>> THEN <<0>> ELSE v.mag
        first == bytes[1]
        extend == first > 127
                  /\ ~(first = 128 /\ AllZero(Tail(bytes)) /\ v.sign = "Minus")
        ext == IF extend THEN <<0>> \o bytes ELSE bytes
    IN  IF v.sign = "Minus" THEN twos_complement_be(ext) ELSE ext

\* usize::try_from(value): <<>> when it fails, <<w>> when it succeeds
usize_try_from(v) ==
    IF v.sign # "Minus" /\ Len(v.mag) <= USIZE_BYTES
    THEN <<ZeroPad(v.mag, USIZE_BYTES)>>
    ELSE <<>>

\* i16::try_from(value), then to_be_bytes(): <<>> when it fails, else <<bytes>>
i16_try_from_be_bytes(v) ==
    LET m == IF Len(v.mag) <= 2 THEN ZeroPad(v.mag, 2) ELSE <<255, 255>>
        n == m[1] * 256 + m[2]
    IN  IF Len(v.mag) > 2 THEN <<>>
        ELSE IF v.sign = "Minus"
             THEN (IF n <= 32768 THEN <<twos_complement_be(m)>> ELSE <<>>)
             ELSE (IF n <= 32767 THEN <<m>> ELSE <<>>)

(***************************************************************************)
(* Variable-length integer codec: decoding                                 *)
(***************************************************************************)
\* The structs of term.rs.  Literal, ExtendedLiteral, Atom and Label hold a
\* usize, Integer holds a BigInt, a register holds a usize and an
\* Option<usize>, a List holds its elements.
Literal(value) == [value |-> value]
ExtendedLiteral(value) == [value |-> value]
Integer(value) == [value |-> value]
Atom(value) == [value |-> value]
Label(value) == [value |-> value]
XRegister(value, ty) == [value |-> value, ty |-> ty]
YRegister(value, ty) == [value |-> value, ty |-> ty]
List(elements) == [elements |-> elements]

None == <<>>
Some(x) == <<x>>

\* enum Term: the variant and the struct it holds.
Term(kind, inner) == [kind |-> kind, inner |-> inner]

\* enum Register: X(XRegister) or Y(YRegister).
Register(kind, inner) == [kind |-> kind, inner |-> inner]

RECURSIVE decode_usize(_, _)

\* impl Decode for Literal
Literal_decode(r) ==
    LET t == read_u8(r)
    IN  IF ~IsOk(t) THEN t
        ELSE IF BitAnd(t.val, 7) # TAG_U THEN Err(UnknownTermTag(t.val))
        ELSE LET v == decode_usize(t.val, t.rest)
             IN  IF ~IsOk(v) THEN v ELSE Ok(Literal(v.val), v.rest)

\* Faulty variant: the bytes are taken in little-endian order.
RECURSIVE Reverse(_)
Reverse(bytes) ==
    IF bytes = <<>> THEN <<>> ELSE Append(Reverse(Tail(bytes)), Head(bytes))

read_uint_le_as_usize(r, byte_size) ==
    LET b == read_exact(r, byte_size)
    IN  IF ~IsOk(b) THEN b
        ELSE Ok(LastBytes(ZeroPad(Reverse(b.val), 8), USIZE_BYTES), b.rest)

\* reader.read_uint::<BigEndian>(byte_size)? as usize
read_uint_as_usize(r, byte_size) ==
    LET b == read_exact(r, byte_size)
    IN  IF ~IsOk(b) THEN b
        ELSE Ok(LastBytes(ZeroPad(b.val, 8), USIZE_BYTES), b.rest)

\* Faulty variant: the width of the word is taken to be 8 bytes on every build.
decode_usize_width_8(tag, r) ==
    IF BitAnd(tag, 8) = 0 THEN
        Ok(usize_from(Shr(tag, 4)), r)
    ELSE IF BitAnd(tag, 16) = 0 THEN
        LET b == read_u8(r)
        IN  IF ~IsOk(b) THEN b
            ELSE Ok(usize_from(BitOr(BitAnd(tag, 224) * 8, b.val)), b.rest)
    ELSE IF Shr(tag, 5) # 7 THEN
        LET byte_size == Shr(tag, 5) + 2
        IN  IF byte_size > 8
            THEN Err(TooLargeUsizeValue(usize_from(byte_size)))
            ELSE read_uint_as_usize(r, byte_size)
    ELSE
        LET l == Literal_decode(r)
        IN  IF ~IsOk(l) THEN l ELSE Err(TooLargeUsizeValue(l.val.value))

decode_usize(tag, r) ==
    IF BitAnd(tag, 8) = 0 THEN
        Ok(usize_from(Shr(tag, 4)), r)
    ELSE IF BitAnd(tag, 16) = 0 THEN
        LET b == read_u8(r)
        IN  IF ~IsOk(b) THEN b
            ELSE Ok(usize_from(BitOr(BitAnd(tag, 224) * 8, b.val)), b.rest)
    ELSE IF Shr(tag, 5) # 7 THEN
        LET byte_size == Shr(tag, 5) + 2
        IN  IF byte_size > USIZE_BYTES
            THEN Err(TooLargeUsizeValue(usize_from(byte_size)))
            ELSE read_uint_as_usize(r, byte_size)
    ELSE
        LET l == Literal_decode(r)
        IN  IF ~IsOk(l) THEN l ELSE Err(TooLargeUsizeValue(l.val.value))

\* let mut buf = vec![0; byte_size]; reader.read_exact(&mut buf)?;
\* Ok(BigInt::from_signed_bytes_be(&buf))
read_signed_bytes(r, byte_size) ==
    LET b == read_exact(r, byte_size)
    IN  IF ~IsOk(b) THEN b ELSE Ok(from_signed_bytes_be(b.val), b.rest)

decode_integer(tag, r) ==
    IF BitAnd(tag, 8) = 0 THEN
        Ok(BigInt_from(Shr(tag, 4)), r)
    ELSE IF BitAnd(tag, 16) = 0 THEN
        LET b == read_u8(r)
        IN  IF ~IsOk(b) THEN b
            ELSE Ok(BigInt_from(BitOr(BitAnd(tag, 224) * 8, b.val)), b.rest)
    ELSE IF Shr(tag, 5) # 7 THEN
        read_signed_bytes(r, Shr(tag, 5) + 2)
    ELSE
        LET l == Literal_decode(r)
        IN  IF ~IsOk(l) THEN l
            ELSE IF usize_gt_isize_max(l.val.value)
                 THEN Panic("capacity overflow")
            ELSE IF ~usize_le(l.val.value, Len(l.rest)) THEN Err(IoError)
            ELSE read_signed_bytes(l.rest, usize_low16(l.val.value))

(***************************************************************************)
(* Variable-length integer codec: encoding                                 *)
(***************************************************************************)
Wrote(bytes) == [st |-> "Ok", bytes |-> bytes]

\* The index of the first non-zero byte, 0 when every byte is zero.
RECURSIVE first_nonzero(_, _)
first_nonzero(bytes, i) ==
    IF i > Len(bytes) THEN 0
    ELSE IF bytes[i] # 0 THEN i
    ELSE first_nonzero(bytes, i + 1)

RECURSIVE encode_usize(_, _)

\* impl Encode for Literal
Literal_encode(t) == encode_usize(TAG_U, t.value)

\* Faulty variant: the length prefix of a long run is its whole length.
encode_num_bytes_total_length(tag, bytes) ==
    IF Len(bytes) < 2 THEN Panic("bug")
    ELSE IF Len(bytes) <= 8 THEN
        LET i == first_nonzero(bytes, 1)
            b == bytes[i]
            high == BitAnd(b, 128) # 0
            n == (Len(bytes) - (i - 1)) + (IF high THEN 1 ELSE 0)
        IN  IF i = 0 THEN Wrote(<<>>)
            ELSE IF n < 2 THEN Panic("attempt to subtract with overflow")
            ELSE Wrote(<<BitOr(BitOr(ShlU8(n - 2, 5), 24), tag)>>
                       \o (IF high THEN <<0>> ELSE <<>>)
                       \o SubSeq(bytes, i, Len(bytes)))
    ELSE
        LET size == Literal_encode(Literal(usize_from(Len(bytes))))
        IN  Wrote(<<BitOr(tag, 248)>> \o size.bytes \o bytes)

encode_num_bytes(tag, bytes) ==
    IF Len(bytes) < 2 THEN Panic("bug")
    ELSE IF Len(bytes) <= 8 THEN
        LET i == first_nonzero(bytes, 1)
            b == bytes[i]
            high == BitAnd(b, 128) # 0
            n == (Len(bytes) - (i - 1)) + (IF high THEN 1 ELSE 0)
        IN  IF i = 0 THEN Wrote(<<>>)
            ELSE IF n < 2 THEN Panic("attempt to subtract with overflow")
            ELSE Wrote(<<BitOr(BitOr(ShlU8(n - 2, 5), 24), tag)>>
                       \o (IF high THEN <<0>> ELSE <<>>)
                       \o SubSeq(bytes, i, Len(bytes)))
    ELSE
        LET size == Literal_encode(Literal(usize_from(Len(bytes) - 8)))
        IN  Wrote(<<BitOr(tag, 248)>> \o size.bytes \o bytes)

encode_usize(tag, value) ==
    IF usize_lt_16(value) THEN
        Wrote(<<BitOr(ShlU8(usize_low16(value), 4), tag)>>)
    ELSE IF usize_lt_0x800(value) THEN
        Wrote(<<BitOr(BitOr(BitAnd(Shr(usize_low16(value), 3) % 256, 224), tag), 8),
                BitAnd(usize_low16(value), 255)>>)
    ELSE
        encode_num_bytes(tag, value)

encode_integer(tag, value) ==
    IF usize_try_from(value) # <<>> THEN
        encode_usize(tag, usize_try_from(value)[1])
    ELSE IF i16_try_from_be_bytes(value) # <<>> THEN
        encode_num_bytes(tag, i16_try_from_be_bytes(value)[1])
    ELSE
        encode_num_bytes(tag, to_signed_bytes_be(value))


(***************************************************************************)
(* Operand coercion: the TryFrom<Term> impls                               *)
(***************************************************************************)
Converted(v) == [st |-> "Ok", val |-> v]
ConvertFailed(name, term) == [st |-> "Err", err |-> [type |-> name, term |-> term]]

Literal_try_from(term) ==
    IF term.kind = "Literal" THEN Converted(term.inner)
    ELSE ConvertFailed("NotLiteral", term)

ExtendedLiteral_try_from(term) ==
    IF term.kind = "ExtendedLiteral" THEN Converted(term.inner)
    ELSE ConvertFailed("NotExtendedLiteral", term)

Integer_try_from(term) ==
    IF term.kind = "Integer" THEN Converted(term.inner)
    ELSE ConvertFailed("NotInteger", term)

Atom_try_from(term) ==
    IF term.kind = "Atom" THEN Converted(term.inner)
    ELSE ConvertFailed("NotAtom", term)

XRegister_try_from(term) ==
    IF term.kind = "XRegister" THEN Converted(term.inner)
    ELSE ConvertFailed("NotXRegister", term)

YRegister_try_from(term) ==
    IF term.kind = "YRegister" THEN Converted(term.inner)
    ELSE ConvertFailed("NotYRegister", term)

\* Faulty variant: an Atom is taken for a Label.
Label_try_from_atom(term) ==
    IF term.kind \in {"Label", "Atom"} THEN Converted(term.inner)
    ELSE ConvertFailed("NotLabel", term)

Label_try_from(term) ==
    IF term.kind = "Label" THEN Converted(term.inner)
    ELSE ConvertFailed("NotLabel", term)

List_try_from(term) ==
    IF term.kind = "List" THEN Converted(term.inner)
    ELSE ConvertFailed("NotList", term)

Register_try_from(term) ==
    IF term.kind = "XRegister" THEN Converted(Register("X", term.inner))
    ELSE IF term.kind = "YRegister" THEN Converted(Register("Y", term.inner))
    ELSE ConvertFailed("NotRegister", term)

\* impl From<Register> for Term
Term_from_Register(v) ==
    IF v.kind = "X" THEN Term("XRegister", v.inner) ELSE Term("YRegister", v.inner)

\* TryFrom<Term> for the operand kind an instruction field declares
try_from(kind, term) ==
    CASE kind = "Literal" -> Literal_try_from(term)
      [] kind = "ExtendedLiteral" -> ExtendedLiteral_try_from(term)
      [] kind = "Integer" -> Integer_try_from(term)
      [] kind = "Atom" -> Atom_try_from(term)
      [] kind = "XRegister" -> XRegister_try_from(term)
      [] kind = "YRegister" -> YRegister_try_from(term)
      [] kind = "Label" -> Label_try_from(term)
      [] kind = "List" -> List_try_from(term)
      [] kind = "Register" -> Register_try_from(term)

(***************************************************************************)
(* Term codec: decoding                                                    *)
(***************************************************************************)
\* result.map(f): f applied to the value of an Ok
MapTerm(res, kind) ==
    IF IsOk(res) THEN Ok(Term(kind, res.val), res.rest) ELSE res

MapRegister(res, kind) ==
    IF IsOk(res) THEN Ok(Register(kind, res.val), res.rest) ELSE res

MapStruct(res) ==
    IF IsOk(res) THEN Ok([value |-> res.val], res.rest) ELSE res

\* Integer::decode, Atom::decode, Label::decode
Integer_decode(tag, r) == MapStruct(decode_integer(tag, r))
Atom_decode(tag, r) == MapStruct(decode_usize(tag, r))
Label_decode(tag, r) == MapStruct(decode_usize(tag, r))

\* impl Decode for XRegister
XRegister_decode(r) ==
    LET t == read_u8(r)
    IN  IF ~IsOk(t) THEN t
        ELSE IF BitAnd(t.val, 7) # TAG_X THEN Err(UnknownTermTag(t.val))
        ELSE LET v == decode_usize(t.val, t.rest)
             IN  IF ~IsOk(v) THEN v ELSE Ok(XRegister(v.val, None), v.rest)

\* impl Decode for YRegister
YRegister_decode(r) ==
    LET t == read_u8(r)
    IN  IF ~IsOk(t) THEN t
        ELSE IF BitAnd(t.val, 7) # TAG_Y THEN Err(UnknownTermTag(t.val))
        ELSE LET v == decode_usize(t.val, t.rest)
             IN  IF ~IsOk(v) THEN v ELSE Ok(YRegister(v.val, None), v.rest)

\* once(byte).chain(reader): the byte is read first, then the reader
once_chain(byte, r) == <<byte>> \o r

\* Faulty variant: the Literal after the register is read and not attached.
Register_decode_hint_dropped(r) ==
    LET t == read_u8(r)
    IN  IF ~IsOk(t) THEN t
        ELSE LET tag == t.val
                 reg == IF BitAnd(tag, 7) = TAG_X
                            THEN MapRegister(XRegister_decode(once_chain(tag, t.rest)), "X")
                        ELSE IF BitAnd(tag, 7) = TAG_Y
                            THEN MapRegister(YRegister_decode(once_chain(tag, t.rest)), "Y")
                        ELSE Err(UnknownTermTag(tag))
             IN  IF ~IsOk(reg) THEN reg
                 ELSE LET ty == Literal_decode(reg.rest)
                      IN  IF ~IsOk(ty) THEN ty ELSE Ok(reg.val, ty.rest)

\* The TAG_Z arm of Register::decode: a register, then the Literal of its type
Register_decode_typed(r) ==
    LET t == read_u8(r)
    IN  IF ~IsOk(t) THEN t
        ELSE LET tag == t.val
                 reg == IF BitAnd(tag, 7) = TAG_X
                            THEN MapRegister(XRegister_decode(once_chain(tag, t.rest)), "X")
                        ELSE IF BitAnd(tag, 7) = TAG_Y
                            THEN MapRegister(YRegister_decode(once_chain(tag, t.rest)), "Y")
                        ELSE Err(UnknownTermTag(tag))
             IN  IF ~IsOk(reg) THEN reg
                 ELSE LET ty == Literal_decode(reg.rest)
                      IN  IF ~IsOk(ty) THEN ty
                          ELSE Ok(Register(reg.val.kind,
                                           [reg.val.inner EXCEPT !.ty = Some(ty.val.value)]),
                                  ty.rest)

\* impl Decode for Register
Register_decode(r) ==
    LET t == read_u8(r)
    IN  IF ~IsOk(t) THEN t
        ELSE LET tag == t.val
             IN  IF BitAnd(tag, 7) = TAG_X
                     THEN MapRegister(XRegister_decode(once_chain(tag, t.rest)), "X")
                 ELSE IF BitAnd(tag, 7) = TAG_Y
                     THEN MapRegister(YRegister_decode(once_chain(tag, t.rest)), "Y")
                 ELSE IF BitAnd(tag, 7) = TAG_Z /\ Shr(tag, 4) = 5
                     THEN Register_decode_typed(t.rest)
                 ELSE Err(UnknownTermTag(tag))

RECURSIVE Term_decode(_)

\* (0..size.value).map(|_| Self::decode(reader)).collect::<Result<_, _>>()
RECURSIVE decode_elements(_, _, _)
decode_elements(r, size, acc) ==
    IF usize_is(size, Len(acc)) THEN Ok(acc, r)
    ELSE LET e == Term_decode(r)
         IN  IF ~IsOk(e) THEN e
             ELSE decode_elements(e.rest, size, Append(acc, e.val))

\* ExtendedLiteral::decode
ExtendedLiteral_decode(r) ==
    LET t == Term_decode(r)
    IN  IF ~IsOk(t) THEN t
        ELSE LET l == Literal_try_from(t.val)
             IN  IF ~IsOk(l) THEN Err(ConvertError(l.err))
                 ELSE Ok(ExtendedLiteral(l.val.value), t.rest)

\* Term::decode_extended
decode_extended(tag, r) ==
    LET sub == Shr(tag, 4)
    IN  IF sub = 1 THEN
            LET size == Literal_decode(r)
            IN  IF ~IsOk(size) THEN size
                ELSE LET es == decode_elements(size.rest, size.val.value, <<>>)
                     IN  IF ~IsOk(es) THEN es
                         ELSE Ok(Term("List", List(es.val)), es.rest)
        ELSE IF sub = 2 THEN Panic("not yet implemented: floating piont register")
        ELSE IF sub = 3 THEN Panic("not yet implemented: allocation list")
        ELSE IF sub = 4 THEN MapTerm(ExtendedLiteral_decode(r), "ExtendedLiteral")
        ELSE IF sub = 5 THEN
            LET reg == Register_decode(once_chain(tag, r))
            IN  IF ~IsOk(reg) THEN reg
                ELSE Ok(Term_from_Register(reg.val), reg.rest)
        ELSE Err(UnknownTermTag(tag))

\* impl Decode for Term
Term_decode(r) ==
    LET t == read_u8(r)
    IN  IF ~IsOk(t) THEN t
        ELSE LET tag == t.val
                 low == BitAnd(tag, 7)
             IN  CASE low = TAG_U -> MapTerm(Literal_decode(once_chain(tag, t.rest)), "Literal")
                   [] low = TAG_I -> MapTerm(Integer_decode(tag, t.rest), "Integer")
                   [] low = TAG_A -> MapTerm(Atom_decode(tag, t.rest), "Atom")
                   [] low = TAG_X -> MapTerm(XRegister_decode(once_chain(tag, t.rest)), "XRegister")
                   [] low = TAG_Y -> MapTerm(YRegister_decode(once_chain(tag, t.rest)), "YRegister")
                   [] low = TAG_F -> MapTerm(Label_decode(tag, t.rest), "Label")
                   [] low = TAG_H -> Panic("not yet implemented")
                   [] low = TAG_Z -> decode_extended(tag, t.rest)

(***************************************************************************)
(* Term codec: encoding                                                    *)
(***************************************************************************)
\* Two writes in a row: the `?` after the first ends the routine on a failure.
Then(w1, w2) ==
    IF ~IsOk(w1) THEN w1
    ELSE IF ~IsOk(w2) THEN w2
    ELSE Wrote(w1.bytes \o w2.bytes)

Integer_encode(t) == encode_integer(TAG_I, t.value)
Atom_encode(t) == encode_usize(TAG_A, t.value)
XRegister_encode(t) == encode_usize(TAG_X, t.value)
YRegister_encode(t) == encode_usize(TAG_Y, t.value)
Label_encode(t) == encode_usize(TAG_F, t.value)

\* impl Encode for ExtendedLiteral
ExtendedLiteral_encode(t) ==
    Then(Wrote(<<BitOr(TAG_Z, 64)>>), Literal_encode(Literal(t.value)))

RECURSIVE Term_encode(_)

\* for x in &self.elements { x.encode(writer)?; }
RECURSIVE encode_elements(_, _)
encode_elements(elements, i) ==
    IF i > Len(elements) THEN Wrote(<<>>)
    ELSE Then(Term_encode(elements[i]), encode_elements(elements, i + 1))

\* impl Encode for List
List_encode(t) ==
    Then(Wrote(<<BitOr(TAG_Z, 16)>>),
         Then(Literal_encode(Literal(usize_from(Len(t.elements)))),
              encode_elements(t.elements, 1)))

\* #[derive(Encode)] enum Term: the variant's own encode
Term_encode(t) ==
    CASE t.kind = "Literal" -> Literal_encode(t.inner)
      [] t.kind = "Integer" -> Integer_encode(t.inner)
      [] t.kind = "Atom" -> Atom_encode(t.inner)
      [] t.kind = "XRegister" -> XRegister_encode(t.inner)
      [] t.kind = "YRegister" -> YRegister_encode(t.inner)
      [] t.kind = "Label" -> Label_encode(t.inner)
      [] t.kind = "List" -> List_encode(t.inner)
      [] t.kind = "ExtendedLiteral" -> ExtendedLiteral_encode(t.inner)

\* #[derive(Encode)] enum Register: the variant's own encode
Register_encode(v) ==
    IF v.kind = "X" THEN XRegister_encode(v.inner) ELSE YRegister_encode(v.inner)

(***************************************************************************)
(* The instruction-stream driver (lib.rs)                                  *)
(***************************************************************************)
INSTRUCTION_SET_VERSION == 0
LabelOp_CODE == 1
FuncInfoOp_CODE == 2
LineOp_CODE == 153

UnexpectedArg(expected, actual) ==
    [type |-> "UnexpectedArg", expected |-> expected, actual |-> actual]
UnsupportedInstructionSetVersion(version) ==
    [type |-> "UnsupportedInstructionSetVersion", version |-> version]

\* enum CompactTerm: Literal(Literal), Atom(Atom); the structs hold an index
CompactTerm(kind, index) == [kind |-> kind, inner |-> [index |-> index]]

\* CompactTerm::decode
CompactTerm_decode(r) ==
    LET t == read_u8(r)
    IN  IF ~IsOk(t) THEN t
        ELSE LET tag == t.val
                 low == BitAnd(tag, 7)
             IN  IF low = 0 THEN
                     IF BitAnd(tag, 8) # 0 THEN Panic("not yet implemented")
                     ELSE Ok(CompactTerm("Literal", usize_from(Shr(tag, 4))), t.rest)
                 ELSE IF low = 2 THEN
                     IF BitAnd(tag, 8) # 0 THEN Panic("not yet implemented")
                     ELSE Ok(CompactTerm("Atom", usize_from(Shr(tag, 4))), t.rest)
                 ELSE Panic("not yet implemented")

\* CompactTerm::decode(reader)?.try_into_literal()
decode_literal_arg(r) ==
    LET t == CompactTerm_decode(r)
    IN  IF ~IsOk(t) THEN t
        ELSE IF t.val.kind = "Literal" THEN Ok(t.val.inner, t.rest)
        ELSE Err(UnexpectedArg("literal", t.val))

\* CompactTerm::decode(reader)?.try_into_atom()
decode_atom_arg(r) ==
    LET t == CompactTerm_decode(r)
    IN  IF ~IsOk(t) THEN t
        ELSE IF t.val.kind = "Atom" THEN Ok(t.val.inner, t.rest)
        ELSE Err(UnexpectedArg("atom", t.val))

\* LabelOp::decode_args
LabelOp_decode_args(r) ==
    LET literal == decode_literal_arg(r)
    IN  IF ~IsOk(literal) THEN literal
        ELSE Ok([op |-> "Label", literal |-> literal.val], literal.rest)

\* FuncInfoOp::decode_args
FuncInfoOp_decode_args(r) ==
    LET module == decode_atom_arg(r)
    IN  IF ~IsOk(module) THEN module
        ELSE LET function == decode_atom_arg(module.rest)
             IN  IF ~IsOk(function) THEN function
                 ELSE LET arity == decode_literal_arg(function.rest)
                      IN  IF ~IsOk(arity) THEN arity
                          ELSE Ok([op |-> "FuncInfo", module |-> module.val,
                                   function |-> function.val, arity |-> arity.val],
                                  arity.rest)

\* LineOp::decode_args
LineOp_decode_args(r) ==
    LET literal == decode_literal_arg(r)
    IN  IF ~IsOk(literal) THEN literal
        ELSE Ok([op |-> "Line", literal |-> literal.val], literal.rest)

\* Op::decode
Op_decode(r) ==
    LET code == read_u8(r)
    IN  IF ~IsOk(code) THEN code
        ELSE IF code.val = LabelOp_CODE THEN LabelOp_decode_args(code.rest)
        ELSE IF code.val = FuncInfoOp_CODE THEN FuncInfoOp_decode_args(code.rest)
        ELSE IF code.val = LineOp_CODE THEN LineOp_decode_args(code.rest)
        ELSE Panic("not yet implemented")

(***************************************************************************)
(* Inputs                                                                  *)
(***************************************************************************)
\* The longest run of bytes that follows the first byte of an input stream.
MaxStream == 9
\* The most bytes in the magnitude of an Integer given to the encoder.
MaxMagBytes == 9

Fill(b, k) == [i \in 1..k |-> b]

\* First bytes of input streams: small and large payload bytes, and the tag
\* bytes of Literals of every tier (0, 16, 8, 24, 88, 216, 248) and of a
\* non-Literal (1).
LeadBytes == {0, 1, 8, 16, 20, 24, 88, 127, 128, 216, 248, 255}
FillBytes == {0, 20, 255}

\* The byte sequences of the unit tests decode_usize_works,
\* too_large_usize_value and decode_integer_works.
TestVectors ==
    { <<0>>, <<16>>, <<8, 20>>, <<40, 144>>, <<24, 87, 28>>, <<56, 15, 18, 6>>,
      <<248, 0, 0, 137, 16, 135, 184, 176, 52, 113, 21>>,
      <<24, 255, 255>>, <<24, 254, 189>>, <<88, 248, 164, 147, 83>> }

\* What follows a tag byte: nothing, or a first byte and a run of one byte.
Streams ==
    {<<>>}
    \cup { <<l>> \o Fill(f, k) : l \in LeadBytes, f \in FillBytes, k \in 0..MaxStream }
    \cup { Tail(v) : v \in TestVectors }

\* usize values: a leading byte at every position, followed by a run.
WordLeads == {1, 7, 8, 15, 16, 127, 128, 255}
Words ==
    {usize_from(0), usize_from(20), usize_from(400), usize_from(22300),
     usize_from(987654)}
    \cup { ZeroPad(<<l>> \o Fill(f, k), USIZE_BYTES) :
             l \in WordLeads, f \in FillBytes, k \in 0..(USIZE_BYTES - 1) }

\* Integer values: both signs, magnitudes of 1..MaxMagBytes bytes, and zero.
Magnitudes ==
    { <<l>> \o Fill(f, k) : l \in WordLeads, f \in FillBytes, k \in 0..(MaxMagBytes - 1) }
BigInts ==
    {BigInt("NoSign", <<>>)}
    \cup { BigInt(s, m) : s \in {"Plus", "Minus"}, m \in Magnitudes }

\* The tags the term codec passes to the usize codec and to the integer codec.
UsizeTags == {TAG_U, TAG_A, TAG_X, TAG_Y, TAG_F}

\* The most elements in a List given to the encoder.
MaxListLen == 3
\* The most bytes in a stream of term tags given to the decoder.
MaxTermStream == 4
\* The most bytes in the bytecode of a chunk.
MaxChunk == 5

SeqsUpTo(S, n) == UNION { [1..k -> S] : k \in 0..n }

\* usize values of terms: every tier of the encoder, and the largest values.
TermWords ==
    {usize_from(0), usize_from(1), usize_from(15), usize_from(16),
     usize_from(2047), usize_from(2048), usize_from(22300),
     <<127>> \o Fill(255, USIZE_BYTES - 1),
     <<128>> \o Fill(0, USIZE_BYTES - 1),
     Fill(255, USIZE_BYTES)}

Types == {None, Some(usize_from(0)), Some(usize_from(20))}

TermInts ==
    {BigInt("NoSign", <<>>)}
    \cup { BigInt(s, <<l>> \o Fill(f, k)) :
             s \in {"Plus", "Minus"}, l \in {1, 128, 255}, f \in {0, 255},
             k \in {0, 1, 2, 7, MaxMagBytes - 1} }

Scalars ==
    { Term(k, [value |-> w]) :
        k \in {"Literal", "Atom", "Label", "ExtendedLiteral"}, w \in TermWords }
    \cup { Term(k, [value |-> w, ty |-> ty]) :
             k \in {"XRegister", "YRegister"}, w \in TermWords, ty \in Types }
    \cup { Term("Integer", Integer(v)) : v \in TermInts }

ListElems ==
    {Term("Literal", Literal(usize_from(1))),
     Term("Literal", Literal(usize_from(2048))),
     Term("Atom", Atom(usize_from(16))),
     Term("XRegister", XRegister(usize_from(0), None)),
     Term("Label", Label(usize_from(3)))}

NestedElems ==
    {Term("List", List(<<>>)),
     Term("List", List(<<Term("Literal", Literal(usize_from(1)))>>)),
     Term("List", List(<<Term("List", List(<<>>)), Term("Atom", Atom(usize_from(16)))>>)),
     Term("ExtendedLiteral", ExtendedLiteral(usize_from(1)))}

Lists ==
    { Term("List", List(es)) : es \in SeqsUpTo(ListElems, MaxListLen) }
    \cup { Term("List", List(es)) : es \in SeqsUpTo(NestedElems, 2) }

Terms == Scalars \cup Lists

Registers ==
    { Register(k, [value |-> w, ty |-> ty]) : k \in {"X", "Y"}, w \in TermWords, ty \in Types }

\* What may follow an encoded term in the stream.
Suffixes == {<<>>, <<255>>, <<0, 16>>}

\* Tag bytes of streams of terms: Literals 0, 1 and 2 (0, 16, 32), x0 (3),
\* y1 (20), a List (23), an ExtendedLiteral (71), a typed register (87), a
\* floating-point register (39), an allocation list (55) and a character (6).
TermBytes == {0, 16, 32, 3, 20, 23, 71, 87, 39, 55, 6}

\* What follows the tag byte of a term: nothing, or a first byte and a run
\* that is empty, one byte or long enough for every tier.
TermTails ==
    {<<>>}
    \cup { <<l>> \o Fill(f, k) : l \in LeadBytes, f \in FillBytes, k \in {0, 1, MaxStream} }

\* Streams of term tags, and every tag byte followed by a tail.
TermStreams ==
    SeqsUpTo(TermBytes, MaxTermStream)
    \cup { <<tag>> \o r : tag \in Byte, r \in TermTails }

\* The operand kinds an instruction field declares.
Kinds ==
    {"Literal", "Integer", "Atom", "Label", "XRegister", "YRegister", "Register",
     "List", "ExtendedLiteral"}

\* Bytes of a chunk: the opcodes 1, 2 and 153, which are also term tags, the
\* Literals 0 and 1 (0, 16), the Atom 1 (18) and a Literal of two bytes (8).
ChunkBytes == {0, 1, 2, 8, 16, 18, 153}
Chunks ==
    { [version |-> v, bytecode |-> b] : v \in {0, 1}, b \in SeqsUpTo(ChunkBytes, MaxChunk) }

(***************************************************************************)
(* The state machine: one action per routine.  A routine is called on any  *)
(* input from the state in which nothing has been called yet; the decoder  *)
(* can then be run on what an encoder wrote.                               *)
(***************************************************************************)
NoCall == [fn |-> "none"]
NoRet == [st |-> "None"]

Init ==
    /\ USIZE_BYTES \in {4, 8}
    /\ call = NoCall
    /\ ret = NoRet
    /\ reader = <<>>
    /\ ops = <<>>
    /\ status = "idle"

\* decode_usize(tag, reader) on any tag byte and stream
DecodeUsize ==
    /\ call = NoCall
    /\ \E tag \in Byte, r \in Streams :
         /\ call' = [fn |-> "decode_usize", tag |-> tag, input |-> r, encoded |-> <<>>]
         /\ ret' = decode_usize(tag, r)
    /\ UNCHANGED <<USIZE_BYTES, reader, ops, status>>

\* decode_integer(tag, reader) on any tag byte and stream
DecodeInteger ==
    /\ call = NoCall
    /\ \E tag \in Byte, r \in Streams :
         /\ call' = [fn |-> "decode_integer", tag |-> tag, input |-> r, encoded |-> <<>>]
         /\ ret' = decode_integer(tag, r)
    /\ UNCHANGED <<USIZE_BYTES, reader, ops, status>>

\* encode_usize(tag, value, writer)
EncodeUsize ==
    /\ call = NoCall
    /\ \E tag \in UsizeTags, v \in Words :
         /\ call' = [fn |-> "encode_usize", tag |-> tag, value |-> v]
         /\ ret' = encode_usize(tag, v)
    /\ UNCHANGED <<USIZE_BYTES, reader, ops, status>>

\* encode_integer(tag, value, writer)
EncodeInteger ==
    /\ call = NoCall
    /\ \E v \in BigInts :
         /\ call' = [fn |-> "encode_integer", tag |-> TAG_I, value |-> v]
         /\ ret' = encode_integer(TAG_I, v)
    /\ UNCHANGED <<USIZE_BYTES, reader, ops, status>>

\* decode_usize on the bytes encode_usize has just written
DecodeEncodedUsize ==
    /\ call.fn = "encode_usize"
    /\ IsOk(ret) /\ ret.bytes # <<>>
    /\ call' = [fn |-> "decode_usize", tag |-> ret.bytes[1], input |-> Tail(ret.bytes),
                encoded |-> <<call.value>>]
    /\ ret' = decode_usize(ret.bytes[1], Tail(ret.bytes))
    /\ UNCHANGED <<USIZE_BYTES, reader, ops, status>>

\* decode_integer on the bytes encode_integer has just written
DecodeEncodedInteger ==
    /\ call.fn = "encode_integer"
    /\ IsOk(ret) /\ ret.bytes # <<>>
    /\ call' = [fn |-> "decode_integer", tag |-> ret.bytes[1], input |-> Tail(ret.bytes),
                encoded |-> <<call.value>>]
    /\ ret' = decode_integer(ret.bytes[1], Tail(ret.bytes))
    /\ UNCHANGED <<USIZE_BYTES, reader, ops, status>>

NextInt ==
    \/ DecodeUsize
    \/ DecodeInteger
    \/ EncodeUsize
    \/ EncodeInteger
    \/ DecodeEncodedUsize
    \/ DecodeEncodedInteger

SpecInt == Init /\ [][NextInt]_vars

(***************************************************************************)
(* The term codec and the coercions                                        *)
(***************************************************************************)
\* Term::encode(writer)
EncodeTerm ==
    /\ call = NoCall
    /\ \E t \in Terms :
         /\ call' = [fn |-> "Term::encode", term |-> t]
         /\ ret' = Term_encode(t)
    /\ UNCHANGED <<USIZE_BYTES, reader, ops, status>>

\* Term::decode on the bytes Term::encode has just written, and what follows
DecodeEncodedTerm ==
    /\ call.fn = "Term::encode"
    /\ IsOk(ret)
    /\ \E s \in Suffixes :
         /\ call' = [fn |-> "Term::decode", input |-> ret.bytes \o s,
                     encoded |-> <<call.term>>, written |-> ret.bytes, suffix |-> s]
         /\ ret' = Term_decode(ret.bytes \o s)
    /\ UNCHANGED <<USIZE_BYTES, reader, ops, status>>

\* Term::decode(reader) on any stream
DecodeTerm ==
    /\ call = NoCall
    /\ \E r \in TermStreams :
         /\ call' = [fn |-> "Term::decode", input |-> r, encoded |-> <<>>,
                     written |-> <<>>, suffix |-> <<>>]
         /\ ret' = Term_decode(r)
    /\ UNCHANGED <<USIZE_BYTES, reader, ops, status>>

\* Register::encode(writer)
EncodeRegister ==
    /\ call = NoCall
    /\ \E v \in Registers :
         /\ call' = [fn |-> "Register::encode", register |-> v]
         /\ ret' = Register_encode(v)
    /\ UNCHANGED <<USIZE_BYTES, reader, ops, status>>

\* Register::decode on the bytes Register::encode has just written
DecodeEncodedRegister ==
    /\ call.fn = "Register::encode"
    /\ IsOk(ret)
    /\ call' = [fn |-> "Register::decode", input |-> ret.bytes,
                encoded |-> <<call.register>>]
    /\ ret' = Register_decode(ret.bytes)
    /\ UNCHANGED <<USIZE_BYTES, reader, ops, status>>

\* Register::decode(reader) on any stream
DecodeRegister ==
    /\ call = NoCall
    /\ \E r \in TermStreams :
         /\ call' = [fn |-> "Register::decode", input |-> r, encoded |-> <<>>]
         /\ ret' = Register_decode(r)
    /\ UNCHANGED <<USIZE_BYTES, reader, ops, status>>

\* T::try_from(term) for the operand kind T
Coerce ==
    /\ call = NoCall
    /\ \E k \in Kinds, t \in Terms :
         /\ call' = [fn |-> "try_from", kind |-> k, term |-> t]
         /\ ret' = try_from(k, t)
    /\ UNCHANGED <<USIZE_BYTES, reader, ops, status>>

\* The round trip of terms and registers through the encoder and the decoder
NextCodec ==
    \/ EncodeTerm
    \/ DecodeEncodedTerm
    \/ EncodeRegister
    \/ DecodeEncodedRegister

SpecCodec == Init /\ [][NextCodec]_vars

\* The decoders on any stream
NextDecode ==
    \/ DecodeTerm
    \/ DecodeRegister

SpecDecode == Init /\ [][NextDecode]_vars

SpecCoerce == Init /\ [][Coerce]_vars

(***************************************************************************)
(* The driver: parse_code_chunk, one step per turn of its loop             *)
(***************************************************************************)
\* Op::decode(reader) on any stream
OpDecode ==
    /\ call = NoCall
    /\ \E c \in Chunks :
         /\ c.version = INSTRUCTION_SET_VERSION
         /\ call' = [fn |-> "Op::decode", input |-> c.bytecode]
         /\ ret' = Op_decode(c.bytecode)
    /\ UNCHANGED <<USIZE_BYTES, reader, ops, status>>

\* parse_code_chunk(chunk): the version check, then the reader over the bytecode
ParseStart ==
    /\ call = NoCall
    /\ \E c \in Chunks :
         /\ call' = [fn |-> "parse_code_chunk", chunk |-> c]
         /\ IF c.version # INSTRUCTION_SET_VERSION
            THEN /\ status' = "err"
                 /\ ret' = Err(UnsupportedInstructionSetVersion(c.version))
                 /\ reader' = reader
            ELSE /\ status' = "running"
                 /\ ret' = ret
                 /\ reader' = c.bytecode
    /\ UNCHANGED <<USIZE_BYTES, ops>>

\* while !reader.is_empty() { let op = Op::decode(&mut reader)?; dbg!(op); }
ParseStep ==
    /\ status = "running"
    /\ reader # <<>>
    /\ LET op == Op_decode(reader)
       IN  IF IsOk(op)
           THEN /\ ops' = Append(ops, op.val)
                /\ reader' = op.rest
                /\ UNCHANGED <<ret, status>>
           ELSE /\ ret' = op
                /\ status' = IF IsErr(op) THEN "err" ELSE "panic"
                /\ UNCHANGED <<ops, reader>>
    /\ UNCHANGED <<USIZE_BYTES, call>>

\* the todo!() after the loop
ParseEnd ==
    /\ status = "running"
    /\ reader = <<>>
    /\ status' = "panic"
    /\ ret' = Panic("not yet implemented")
    /\ UNCHANGED <<USIZE_BYTES, call, reader, ops>>

NextDriver ==
    \/ OpDecode
    \/ ParseStart
    \/ ParseStep
    \/ ParseEnd

SpecDriver == Init /\ [][NextDriver]_vars

\* One Term or one instruction decoded from any stream
NextOne ==
    \/ DecodeTerm
    \/ OpDecode

SpecOne == Init /\ [][NextOne]_vars

Next == NextInt \/ NextCodec \/ NextDecode \/ Coerce \/ NextDriver \/ NextOne

Spec == Init /\ [][Next]_vars

(***************************************************************************)
(* Claims about the integer codec (checked under SpecInt)                  *)
(***************************************************************************)
Bit3(tag) == (tag \div 8) % 2 = 1
Bit4(tag) == (tag \div 16) % 2 = 1
Top3(tag) == tag \div 32
\* The byte count a tag of the N-byte tier declares.
Declared(tag) == Top3(tag) + 2

\* The bytes and the values of the unit test decode_usize_works.
UsizeVectors ==
    { [bytes |-> <<0>>, value |-> 0], [bytes |-> <<16>>, value |-> 1],
      [bytes |-> <<8, 20>>, value |-> 20], [bytes |-> <<40, 144>>, value |-> 400],
      [bytes |-> <<24, 87, 28>>, value |-> 22300],
      [bytes |-> <<56, 15, 18, 6>>, value |-> 987654] }

\* C2 (as amended): decode_usize returns (1) tag >> 4, reading no byte, when
\* bit 3 of the tag is clear; (2) (bits 5-7 of the tag) << 8 | the next byte,
\* reading one byte, when bit 3 is set and bit 4 is clear; (3) the big-endian
\* value of exactly N = (tag >> 5) + 2 following bytes when bits 3 and 4 are
\* set and the top 3 bits are not all set, where N ranges over 2..8 and is at
\* most the bytes of a machine word; and the vectors of decode_usize_works
\* decode to their values.
C2_UnsignedTieredDecode ==
    call.fn = "decode_usize" =>
        LET tag == call.tag
            r == call.input
            N == Declared(tag)
        IN  /\ ~Bit3(tag) => ret = Ok(NatBytes(tag \div 16, USIZE_BYTES), r)
            /\ (Bit3(tag) /\ ~Bit4(tag) /\ r # <<>>) =>
                   ret = Ok(NatBytes(Top3(tag) * 256 + r[1], USIZE_BYTES), Tail(r))
            /\ (Bit3(tag) /\ Bit4(tag) /\ Top3(tag) # 7) => N \in 2..8
            /\ (Bit3(tag) /\ Bit4(tag) /\ Top3(tag) # 7 /\ N <= USIZE_BYTES /\ Len(r) >= N) =>
                   ret = Ok(Zeros(USIZE_BYTES - N) \o SubSeq(r, 1, N),
                            SubSeq(r, N + 1, Len(r)))
            /\ \A v \in UsizeVectors :
                   (tag = v.bytes[1] /\ r = Tail(v.bytes)) =>
                       (IsOk(ret) /\ ret.val = NatBytes(v.value, USIZE_BYTES) /\ ret.rest = <<>>)

\* C2 witness: on a 64-bit build a tag that declares 8 bytes (the largest N)
\* has been decoded to the value of the 8 bytes that follow it.
C2_Witness ==
    /\ call.fn = "decode_usize"
    /\ USIZE_BYTES = 8
    /\ call.tag = 216
    /\ call.input = <<1>> \o Fill(255, 8)
    /\ ret = Ok(<<1>> \o Fill(255, 7), <<255>>)

\* C2 as stated: N ranges over 2..9, so on a 64-bit build every tag with bits
\* 3 and 4 set whose declared count (tag >> 5) + 2 is in 2..9 is decoded to
\* the value of exactly that many following bytes.
C2_Original ==
    (call.fn = "decode_usize" /\ USIZE_BYTES = 8) =>
        LET tag == call.tag
            r == call.input
            N == Declared(tag)
        IN  (Bit3(tag) /\ Bit4(tag) /\ N \in 2..9 /\ Len(r) >= N) =>
                (IsOk(ret) /\ ret.rest = SubSeq(r, N + 1, Len(r)))

\* The BigInt of a small number n < 65536.
SmallBigInt(n) ==
    IF n = 0 THEN BigInt("NoSign", <<>>)
    ELSE IF n < 256 THEN BigInt("Plus", <<n>>)
    ELSE BigInt("Plus", <<n \div 256, n % 256>>)

\* Whether a + b = 256^Len(a), adding the bytes from the last one up.
RECURSIVE SumsToZero(_, _, _)
SumsToZero(a, b, carry) ==
    IF a = <<>> THEN carry = 1
    ELSE LET n == Len(a)
             sum == a[n] + b[n] + carry
         IN  /\ sum % 256 = 0
             /\ SumsToZero(SubSeq(a, 1, n - 1), SubSeq(b, 1, n - 1), sum \div 256)

\* Whether the BigInt v is the big-endian two's-complement number in bytes b.
IsTwosComplement(v, b) ==
    /\ Len(v.mag) <= Len(b)
    /\ v.mag # <<>> => v.mag[1] # 0
    /\ (v.sign = "NoSign") <=> (v.mag = <<>>)
    /\ IF b[1] < 128
       THEN v.sign # "Minus" /\ Zeros(Len(b) - Len(v.mag)) \o v.mag = b
       ELSE v.sign = "Minus" /\ SumsToZero(Zeros(Len(b) - Len(v.mag)) \o v.mag, b, 0)

\* The bytes and the values of the negative vectors of decode_integer_works:
\* -1, -323 and -123432109 (123432109 = 0x075B6CAD).
IntegerVectors ==
    { [bytes |-> <<24, 255, 255>>, value |-> BigInt("Minus", <<1>>)],
      [bytes |-> <<24, 254, 189>>, value |-> BigInt("Minus", <<1, 67>>)],
      [bytes |-> <<88, 248, 164, 147, 83>>, value |-> BigInt("Minus", <<7, 91, 108, 173>>)] }

IsTooLarge(res) == IsErr(res) /\ res.err.type = "TooLargeUsizeValue"

\* C3 (as amended): decode_integer agrees with decode_usize on the one-byte
\* and 11-bit tiers (never negative); in the N-byte tier it reads the
\* N = (tag >> 5) + 2 following bytes as a big-endian two's-complement number
\* whatever N is; in these three tiers it never returns the over-large-value
\* error; and [24,255,255], [24,254,189], [88,248,164,147,83] decode to -1,
\* -323, -123432109.
C3_SignedDecode ==
    call.fn = "decode_integer" =>
        LET tag == call.tag
            r == call.input
            N == Declared(tag)
            u == decode_usize(tag, r)
        IN  /\ ~Bit3(tag) => ret = Ok(SmallBigInt(tag \div 16), r)
            /\ (Bit3(tag) /\ ~Bit4(tag) /\ r # <<>>) =>
                   ret = Ok(SmallBigInt(Top3(tag) * 256 + r[1]), Tail(r))
            /\ (~Bit4(tag) \/ ~Bit3(tag)) =>
                   /\ IsOk(ret) <=> IsOk(u)
                   /\ IsOk(ret) =>
                          /\ ret.val.sign # "Minus"
                          /\ Zeros(USIZE_BYTES - Len(ret.val.mag)) \o ret.val.mag = u.val
                          /\ ret.rest = u.rest
            /\ (Bit3(tag) /\ Bit4(tag) /\ Top3(tag) # 7 /\ Len(r) >= N) =>
                   /\ IsOk(ret)
                   /\ ret.rest = SubSeq(r, N + 1, Len(r))
                   /\ IsTwosComplement(ret.val, SubSeq(r, 1, N))
            /\ ~(Bit3(tag) /\ Bit4(tag) /\ Top3(tag) = 7) => ~IsTooLarge(ret)
            /\ \A v \in IntegerVectors :
                   (tag = v.bytes[1] /\ r = Tail(v.bytes)) => ret = Ok(v.value, <<>>)

\* C3 witness: [88,248,164,147,83] has been decoded to -123432109.
C3_Witness ==
    /\ call.fn = "decode_integer"
    /\ call.tag = 88
    /\ call.input = <<248, 164, 147, 83>>
    /\ ret = Ok(BigInt("Minus", <<7, 91, 108, 173>>), <<>>)

\* C3 as stated, on a 64-bit build: decode_integer never returns an
\* over-large-value error.
C3_Original ==
    (call.fn = "decode_integer" /\ USIZE_BYTES = 8) => ~IsTooLarge(ret)

\* C4: decode_usize returns no number when the declared byte count N exceeds
\* the bytes of a machine word or when the tag selects the extended-length
\* tier: in the N-byte tier it returns the over-large-value error carrying N,
\* and in the extended-length tier, when the nested length prefix decodes as
\* a Literal, the over-large-value error carrying that Literal's value
\* (for [248,0,...] the value 0).
C4_OverLargeRejected ==
    (call.fn = "decode_usize" /\ Bit3(call.tag) /\ Bit4(call.tag)) =>
        LET tag == call.tag
            r == call.input
            N == Declared(tag)
            prefix == Literal_decode(r)
        IN  /\ (Top3(tag) # 7 /\ N > USIZE_BYTES) =>
                   ret = Err(TooLargeUsizeValue(NatBytes(N, USIZE_BYTES)))
            /\ Top3(tag) = 7 =>
                   /\ ~IsOk(ret)
                   /\ IsOk(prefix) => ret = Err(TooLargeUsizeValue(prefix.val.value))
                   /\ (r # <<>> /\ r[1] % 16 = 0) =>
                          ret = Err(TooLargeUsizeValue(NatBytes(r[1] \div 16, USIZE_BYTES)))

\* C4 witness: [248,0,0,137,16,135,184,176,52,113,21] has been rejected with
\* the over-large-value error carrying the decoded byte count 0.
C4_Witness ==
    /\ call.fn = "decode_usize"
    /\ call.tag = 248
    /\ call.input = <<0, 0, 137, 16, 135, 184, 176, 52, 113, 21>>
    /\ ret = Err(TooLargeUsizeValue(Zeros(USIZE_BYTES)))

\* C5: for every integer v whose minimal two's-complement form fits in at
\* most 8 bytes, decode_integer reads the bytes encode_integer wrote back as
\* v, with the same sign and the same value.
C5_SignPreserved ==
    (call.fn = "decode_integer" /\ call.encoded # <<>>
        /\ Len(to_signed_bytes_be(call.encoded[1])) <= 8) =>
        (IsOk(ret) /\ ret.val = call.encoded[1])

(***************************************************************************)
(* Claims about the term codec (SpecCodec, SpecDecode, SpecCoerce)         *)
(***************************************************************************)
\* Whether no number of the term is written with more than 8 payload bytes
\* (the extended-length tier).
RECURSIVE NoExtendedTier(_)
NoExtendedTier(t) ==
    IF t.kind = "List"
    THEN \A i \in 1..Len(t.inner.elements) : NoExtendedTier(t.inner.elements[i])
    ELSE IF t.kind = "ExtendedLiteral"
    THEN Len(Term_encode(t).bytes) - 2 <= 8
    ELSE Len(Term_encode(t).bytes) - 1 <= 8

\* C1, on a 64-bit build: for every Term t whose encoding does not use the
\* extended-length tier, decoding the bytes Term::encode wrote succeeds and
\* yields t.
C1_RoundTrip ==
    (call.fn = "Term::decode" /\ call.encoded # <<>> /\ USIZE_BYTES = 8
        /\ NoExtendedTier(call.encoded[1])) =>
        (IsOk(ret) /\ ret.val = call.encoded[1])

\* C6: for every register r, also one with a type hint, Register::decode
\* recovers the index and the type hint of r from the bytes Register::encode
\* wrote; a register with a type hint is written in the sub-tag-5 form (the
\* byte 0x57 first), one without in the plain X/Y form.
C6_RegisterRoundTrip ==
    (call.fn = "Register::decode" /\ call.encoded # <<>>
        /\ usize_lt_0x800(call.encoded[1].inner.value)) =>
        /\ IsOk(ret)
        /\ ret.val.kind = call.encoded[1].kind
        /\ ret.val.inner.value = call.encoded[1].inner.value
        /\ ret.val.inner.ty = call.encoded[1].inner.ty
        /\ (call.encoded[1].inner.ty # None) <=> (call.input[1] = 87)

\* C7: Term::decode is total: on every stream, also one whose tag byte
\* selects a floating-point register (sub-tag 2), an allocation list
\* (sub-tag 3) or a character (tag 6), it returns a Term or an error and
\* never panics.
C7_DecodeTotal ==
    call.fn = "Term::decode" => (IsOk(ret) \/ IsErr(ret))

\* The error a failed narrowing to each operand kind returns.
MismatchOf(kind) ==
    CASE kind = "Literal" -> "NotLiteral"
      [] kind = "Integer" -> "NotInteger"
      [] kind = "Atom" -> "NotAtom"
      [] kind = "Label" -> "NotLabel"
      [] kind = "XRegister" -> "NotXRegister"
      [] kind = "YRegister" -> "NotYRegister"
      [] kind = "Register" -> "NotRegister"
      [] kind = "List" -> "NotList"
      [] kind = "ExtendedLiteral" -> "NotExtendedLiteral"

\* C9: narrowing a Term to an operand kind succeeds, with the inner value
\* unchanged, exactly when the Term's variant is that kind (Register takes
\* XRegister and YRegister), and otherwise fails with the mismatch error of
\* that kind carrying the Term unchanged; an Atom where a Label is required
\* fails with NotLabel.
C9_Coercion ==
    call.fn = "try_from" =>
        LET k == call.kind
            t == call.term
            matches == \/ k = t.kind
                       \/ k = "Register" /\ t.kind \in {"XRegister", "YRegister"}
        IN  /\ matches <=> ret.st = "Ok"
            /\ (matches /\ k # "Register") => ret.val = t.inner
            /\ (matches /\ k = "Register") =>
                   /\ ret.val.inner = t.inner
                   /\ ret.val.kind = (IF t.kind = "XRegister" THEN "X" ELSE "Y")
            /\ ~matches => ret = [st |-> "Err", err |-> [type |-> MismatchOf(k), term |-> t]]
            /\ (k = "Label" /\ t.kind = "Atom") => (ret.st = "Err" /\ ret.err.type = "NotLabel")

\* C9 witness: an Atom has been narrowed to a Label and the NotLabel error
\* carries the Atom.
C9_Witness ==
    /\ call.fn = "try_from"
    /\ call.kind = "Label"
    /\ call.term = Term("Atom", Atom(NatBytes(16, USIZE_BYTES)))
    /\ ret.st = "Err"
    /\ ret.err = [type |-> "NotLabel", term |-> call.term]

(***************************************************************************)
(* Claims about the driver (SpecDriver)                                    *)
(***************************************************************************)
Catalog == {LabelOp_CODE, FuncInfoOp_CODE, LineOp_CODE}

\* C8: for every opcode byte that is not in the catalog, Op::decode returns
\* the unsupported-opcode error carrying that byte: it does not panic.
C8_UnknownOpcode ==
    (call.fn = "Op::decode" /\ call.input # <<>> /\ call.input[1] \notin Catalog) =>
        (IsErr(ret) /\ ret.err = [type |-> "UnsupportedOpcode", opcode |-> call.input[1]])

\* Whether the bytes are exactly a concatenation of valid instructions.
RECURSIVE ValidInstructions(_)
ValidInstructions(b) ==
    \/ b = <<>>
    \/ IsOk(Op_decode(b)) /\ ValidInstructions(Op_decode(b).rest)

\* C10: once the driver has stopped on a chunk of the supported version, it
\* has returned successfully if and only if the bytecode is exactly a
\* concatenation of valid instructions, and it has returned an error
\* otherwise.
C10_Exhaustion ==
    (call.fn = "parse_code_chunk" /\ call.chunk.version = INSTRUCTION_SET_VERSION
        /\ status # "running") =>
        /\ (status = "ok") <=> ValidInstructions(call.chunk.bytecode)
        /\ ~ValidInstructions(call.chunk.bytecode) => status = "err"

(***************************************************************************)
(* Claims about Lists and registers read from a stream (SpecDecode)        *)
(***************************************************************************)
\* Whether the tag byte selects a List: TAG_Z with sub-tag 1.
IsListTag(tag) == BitAnd(tag, 7) = TAG_Z /\ Shr(tag, 4) = 1

\* The Terms read one after the other from r, up to n of them, and the
\* first result that is not a Term in their place.
RECURSIVE TermsFrom(_, _)
TermsFrom(r, n) ==
    IF n = 0 THEN <<>>
    ELSE LET e == Term_decode(r)
         IN  IF IsOk(e) THEN <<e>> \o TermsFrom(e.rest, n - 1) ELSE <<e>>

\* The number a size prefix of the bounded streams stands for.
SizeOf(w) == CHOOSE n \in 0..2047 : usize_is(w, n)

\* C11: when the stream holds a List (sub-tag 1) whose size prefix decodes
\* to n, Term::decode either succeeds with a List of exactly the n Terms of
\* the stream, in stream order, or, when fewer than n Terms can be decoded,
\* fails with an error; it returns no shorter List.
C11_ListDecode ==
    (call.fn = "Term::decode" /\ call.input # <<>> /\ IsListTag(call.input[1])
        /\ IsOk(Literal_decode(Tail(call.input)))
        /\ usize_lt_0x800(Literal_decode(Tail(call.input)).val.value)) =>
        LET size == Literal_decode(Tail(call.input))
            n == SizeOf(size.val.value)
            es == TermsFrom(size.rest, n)
            all == Len(es) = n /\ \A i \in 1..n : IsOk(es[i])
        IN  IF all
            THEN /\ IsOk(ret)
                 /\ ret.val.kind = "List"
                 /\ Len(ret.val.inner.elements) = n
                 /\ \A i \in 1..n : ret.val.inner.elements[i] = es[i].val
                 /\ ret.rest = (IF n = 0 THEN size.rest ELSE es[n].rest)
            ELSE IsErr(ret)

\* The part of C11 that does not depend on how a failure is reported: no
\* List is returned unless all n Terms were decoded.
ListDecodeExact ==
    (call.fn = "Term::decode" /\ call.input # <<>> /\ IsListTag(call.input[1])
        /\ IsOk(Literal_decode(Tail(call.input)))
        /\ usize_lt_0x800(Literal_decode(Tail(call.input)).val.value)) =>
        LET size == Literal_decode(Tail(call.input))
            n == SizeOf(size.val.value)
            es == TermsFrom(size.rest, n)
            all == Len(es) = n /\ \A i \in 1..n : IsOk(es[i])
        IN  /\ IsOk(ret) <=> all
            /\ IsOk(ret) =>
                 /\ Len(ret.val.inner.elements) = n
                 /\ \A i \in 1..n : ret.val.inner.elements[i] = es[i].val
            /\ ~IsOk(ret) => ret = es[Len(es)]

\* Whether the tag byte is the type-annotation tag: TAG_Z with sub-tag 5.
IsTypedTag(tag) == BitAnd(tag, 7) = TAG_Z /\ Shr(tag, 4) = 5

\* Whether the value a decoder returned is a register.
IsRegisterValue(v) == v.kind \in {"X", "Y", "XRegister", "YRegister"}

\* Whether a register with a type hint occurs in the Term.
RECURSIVE HasTypeHint(_)
HasTypeHint(t) ==
    IF t.kind \in {"X", "Y", "XRegister", "YRegister"} THEN t.inner.ty # None
    ELSE IF t.kind = "List"
    THEN \E i \in 1..Len(t.inner.elements) : HasTypeHint(t.inner.elements[i])
    ELSE FALSE

\* C12: a register that Term::decode or Register::decode returns has no
\* type hint unless the type-annotation tag (sub-tag 5) was read; after that
\* tag a fresh tag byte is read as an X or Y register, then one Literal, and
\* the type hint is that Literal's value; a fresh tag byte that is no X or Y
\* register is an error.
C12_TypeHint ==
    (call.fn \in {"Term::decode", "Register::decode"} /\ call.input # <<>>) =>
        LET tag == call.input[1]
            after == Tail(call.input)
        IN  /\ (IsOk(ret) /\ HasTypeHint(ret.val)) =>
                   \E i \in 1..(Len(call.input) - Len(ret.rest)) : IsTypedTag(call.input[i])
            /\ (~IsTypedTag(tag) /\ IsOk(ret) /\ IsRegisterValue(ret.val)) =>
                   ret.val.inner.ty = None
            /\ IsTypedTag(tag) =>
                   IF after = <<>> THEN ret = Err(IoError)
                   ELSE IF BitAnd(after[1], 7) \notin {TAG_X, TAG_Y}
                   THEN ret = Err(UnknownTermTag(after[1]))
                   ELSE LET v == decode_usize(after[1], Tail(after))
                            l == Literal_decode(v.rest)
                        IN  IF ~IsOk(v) THEN ret = v
                            ELSE IF ~IsOk(l) THEN ret = l
                            ELSE /\ IsOk(ret)
                                 /\ IsRegisterValue(ret.val)
                                 /\ (ret.val.kind \in {"X", "XRegister"})
                                        <=> (BitAnd(after[1], 7) = TAG_X)
                                 /\ ret.val.inner.value = v.val
                                 /\ ret.val.inner.ty = Some(l.val.value)
                                 /\ ret.rest = l.rest

\* C12 witness: the stream 0x57, x0, Literal 1 has been decoded as the
\* register x0 with the type hint 1.
C12_Witness ==
    /\ call.fn = "Register::decode"
    /\ call.input = <<87, 3, 16>>
    /\ IsOk(ret)
    /\ ret.val = Register("X", XRegister(usize_from(0), Some(usize_from(1))))
    /\ ret.rest = <<>>

(***************************************************************************)
(* Claims about what the encoders write (SpecInt, SpecCodec)               *)
(***************************************************************************)
\* The byte run encode_integer hands to encode_num_bytes for a value that
\* is no usize and no i16.
ByteRun(v) == to_signed_bytes_be(v)

\* Whether encode_integer encodes v from a byte run of more than 8 bytes.
HasLongRun(v) ==
    /\ usize_try_from(v) = <<>>
    /\ i16_try_from_be_bytes(v) = <<>>
    /\ Len(ByteRun(v)) > 8

\* C13: for an integer whose byte run has L > 8 bytes, encode_integer
\* writes the extended-length tag, the Literal L - 8 and all L bytes of the
\* run; decode_integer on what was written reads the Literal p = L - 8 and
\* consumes exactly p bytes of the run, so it leaves 8 bytes unread and
\* returns the number of the first L - 8 bytes, which is not the integer.
C13_ExtendedLength ==
    /\ (call.fn = "encode_integer" /\ HasLongRun(call.value)) =>
           LET L == Len(ByteRun(call.value))
           IN  /\ L - 8 < 16
               /\ ret = Wrote(<<248 + call.tag, (L - 8) * 16>> \o ByteRun(call.value))
    /\ (call.fn = "decode_integer" /\ call.encoded # <<>> /\ HasLongRun(call.encoded[1])) =>
           LET run == ByteRun(call.encoded[1])
               L == Len(run)
           IN  /\ IsOk(ret)
               /\ ret.rest = SubSeq(run, L - 8 + 1, L)
               /\ ret.val = from_signed_bytes_be(SubSeq(run, 1, L - 8))
               /\ ret.val # call.encoded[1]

\* C13 witness: 2^64, a run of 9 bytes, has been written with the prefix 1
\* and read back as 1 with 8 bytes left unread.
C13_Witness ==
    /\ call.fn = "decode_integer"
    /\ call.encoded = <<BigInt("Plus", <<1>> \o Fill(0, 8))>>
    /\ call.tag = 249
    /\ call.input = <<16, 1>> \o Fill(0, 8)
    /\ ret = Ok(BigInt("Plus", <<1>>), Fill(0, 8))

(***************************************************************************)
(* Termination of one decode (SpecOne)                                     *)
(***************************************************************************)
\* The number of elements a List decode asks for, capped above the length
\* of every stream of the model.
Asked(w) == IF usize_lt_0x800(w) THEN SizeOf(w) ELSE 2047

\* The number of calls of Term::decode made while one Term is decoded from
\* r: the call itself, the calls for the elements of a List up to the first
\* that fails, and the call ExtendedLiteral::decode makes.
RECURSIVE TermDecodeCalls(_)
RECURSIVE ElementCalls(_, _)
ElementCalls(r, n) ==
    IF n = 0 THEN 0
    ELSE LET e == Term_decode(r)
         IN  TermDecodeCalls(r) + (IF IsOk(e) THEN ElementCalls(e.rest, n - 1) ELSE 0)

TermDecodeCalls(r) ==
    IF r = <<>> THEN 1
    ELSE IF IsListTag(r[1]) THEN
        LET size == Literal_decode(Tail(r))
        IN  IF IsOk(size) THEN 1 + ElementCalls(size.rest, Asked(size.val.value)) ELSE 1
    ELSE IF BitAnd(r[1], 7) = TAG_Z /\ Shr(r[1], 4) = 4 THEN 1 + TermDecodeCalls(Tail(r))
    ELSE 1

\* C14: decoding one Term or one instruction from a finite stream ends with
\* a value or an error; a decode that returns a value has consumed at least
\* one byte, and the calls of Term::decode it took are no more than the
\* bytes it consumed (one more than the bytes of the stream when it fails),
\* also for a List whose size prefix is larger than the bytes that remain
\* and for nested Lists.
C14_Terminates ==
    /\ call.fn \in {"Term::decode", "Op::decode"} =>
           /\ IsOk(ret) \/ IsErr(ret)
           /\ IsOk(ret) => Len(ret.rest) < Len(call.input)
    /\ call.fn = "Term::decode" =>
           /\ IsOk(ret) => TermDecodeCalls(call.input) <= Len(call.input) - Len(ret.rest)
           /\ TermDecodeCalls(call.input) <= Len(call.input) + 1

\* The part of C14 that counts work: the calls of Term::decode are bounded
\* by the bytes of the stream whatever the outcome.
DecodeCallsBounded ==
    call.fn = "Term::decode" =>
        /\ IsOk(ret) => /\ Len(ret.rest) < Len(call.input)
                        /\ TermDecodeCalls(call.input) <= Len(call.input) - Len(ret.rest)
        /\ TermDecodeCalls(call.input) <= Len(call.input) + 1

\* An Integer whose length prefix is above isize::MAX has made the decoder
\* panic in vec![0; byte_size].
CapacityOverflow ==
    /\ call.fn = "Term::decode"
    /\ BitAnd(call.input[1], 7) = TAG_I
    /\ ret = Panic("capacity overflow")

(***************************************************************************)
(* The tier an encoder chooses (SpecInt)                                   *)
(***************************************************************************)
\* The header byte of the N-byte tier with N payload bytes under the tag.
TierHeader(tag, N) == (N - 2) * 32 + 24 + tag

\* C15: encode_usize writes the one-byte tier iff v < 16, the two-byte tier
\* iff 16 <= v < 2048, and otherwise the N-byte tier with the smallest N in
\* 2..8 from which decode_usize recovers v: the bytes of v without leading
\* zeros.  encode_integer uses these tiers for a non-negative machine word,
\* else the two bytes of the 16-bit two's complement of a value that fits
\* 16 bits, else the minimal sign-extended byte run.
C15_ShortestTier ==
    /\ call.fn = "encode_usize" =>
           LET sig == StripZeros(call.value)
           IN  /\ IsOk(ret)
               /\ usize_lt_16(call.value) <=> (Len(ret.bytes) = 1 /\ ~Bit3(ret.bytes[1]))
               /\ (usize_lt_0x800(call.value) /\ ~usize_lt_16(call.value))
                      <=> (Len(ret.bytes) = 2 /\ Bit3(ret.bytes[1]) /\ ~Bit4(ret.bytes[1]))
               /\ ~usize_lt_0x800(call.value) =>
                      /\ Len(sig) \in 2..8
                      /\ ret.bytes = <<TierHeader(call.tag, Len(sig))>> \o sig
    /\ call.fn = "encode_integer" =>
           LET v == call.value
               run == to_signed_bytes_be(v)
           IN  /\ IsOk(ret)
               /\ usize_try_from(v) # <<>> =>
                      /\ usize_lt_16(usize_try_from(v)[1]) <=> Len(ret.bytes) = 1
                      /\ usize_lt_0x800(usize_try_from(v)[1]) <=> Len(ret.bytes) <= 2
                      /\ ~usize_lt_0x800(usize_try_from(v)[1]) =>
                             ret.bytes = <<TierHeader(call.tag, Len(v.mag))>> \o v.mag
               /\ (usize_try_from(v) = <<>> /\ i16_try_from_be_bytes(v) # <<>>) =>
                      ret.bytes = <<TierHeader(call.tag, 2)>> \o i16_try_from_be_bytes(v)[1]
               /\ (usize_try_from(v) = <<>> /\ i16_try_from_be_bytes(v) = <<>>
                      /\ Len(run) <= 8) =>
                      ret.bytes = <<TierHeader(call.tag, Len(run))>> \o run

(***************************************************************************)
(* Where an encoded term ends (SpecCodec)                                  *)
(***************************************************************************)
\* The byte run encode_num_bytes is given for the number of a term that is
\* no List, and <<>> when the number is written without it.
RunOf(t) ==
    IF t.kind = "Integer" THEN
        LET v == t.inner.value
        IN  IF usize_try_from(v) # <<>>
            THEN (IF usize_lt_0x800(usize_try_from(v)[1]) THEN <<>> ELSE usize_try_from(v)[1])
            ELSE IF i16_try_from_be_bytes(v) # <<>> THEN i16_try_from_be_bytes(v)[1]
            ELSE to_signed_bytes_be(v)
    ELSE IF usize_lt_0x800(t.inner.value) THEN <<>> ELSE t.inner.value

\* The bytes Term::encode wrote for the number of a term that is no List:
\* an ExtendedLiteral has the byte of its sub-tag before them.
NumberBytes(t, bytes) == IF t.kind = "ExtendedLiteral" THEN Tail(bytes) ELSE bytes

\* C16: when encode_num_bytes is given a run of 2 to 8 bytes, the header it
\* writes has bits 3 and 4 set and not all of its top 3 bits, and the
\* (tag >> 5) + 2 bytes it declares are exactly the bytes written after it,
\* also when a zero byte is prepended; and Term::decode on the bytes of any
\* Term followed by any suffix returns with the suffix left to read.
C16_SelfDelimiting ==
    /\ (call.fn = "Term::encode" /\ call.term.kind # "List"
           /\ Len(RunOf(call.term)) \in 2..8) =>
           LET bytes == NumberBytes(call.term, ret.bytes)
           IN  /\ IsOk(ret)
               /\ Bit3(bytes[1]) /\ Bit4(bytes[1])
               /\ Top3(bytes[1]) # 7
               /\ Top3(bytes[1]) + 2 = Len(bytes) - 1
    /\ (call.fn = "Term::decode" /\ call.encoded # <<>>) =>
           /\ IsOk(ret)
           /\ ret.rest = call.suffix

====
